---- MODULE Spec2Model ----
(***************************************************************************)
(* with_emulators: a supervisor that starts the gcloud emulators, waits    *)
(* until each has printed its readiness sentinel, runs a target command    *)
(* with the emulators' environment and stops the emulators afterwards.     *)
(*                                                                         *)
(* The repository holds three generations of the same program:             *)
(*   "cmd"      src/cmd.go            one emulator, started in a goroutine *)
(*   "jobs"     src/unnamed/part_000, part_001   Datastore and PubSub,     *)
(*              each child in a process group of its own                   *)
(*   "emulator" src/unnamed/part_002  Emulator, all children in the        *)
(*              supervisor's process group, with forwardSignals            *)
(* Byte strings are sequences of one-character strings.                    *)
(***************************************************************************)
EXTENDS Integers, Sequences, FiniteSets, TLC

VARIABLES
    wt,         \* a watchFor under test: sentinel, buf, done, channel, base
    ev,         \* an Env() call under test: helper output and result
    mp,         \* a Managed Process under test: Start() called again and again
    variant,    \* which generation of main runs: "cmd", "jobs", "emulator"
    pc,         \* where main is: [at, i]
    exit,       \* how the supervisor process ended: [how, code]
    em,         \* the Managed Processes: ready, cmd, watcher, Stop's result
    proc,       \* the OS process table: state, process group, signals
    gor,        \* cmd.go's starter goroutine: where it is
    fwd,        \* forwardSignals' goroutine: "none", "waiting", "exited"
    notified,   \* signal.Notify has installed the handler
    sigch,      \* the buffered signal channel
    cmdErr,     \* the result of cmd.Run() on the target
    env,        \* the environment list handed to the target
    hist        \* counters of what happened: signals received and forwarded

\* ------------------------------------------------------------------ bounds

MaxSentinel == 2    \* longest sentinel drawn for the watcher under test
MaxChunk == 1       \* longest chunk handed to one Write call
MaxCalls == 3       \* number of Write calls made on the watcher under test
MaxPieces == 6      \* number of pieces a helper output under test is made of
MaxChildWrites == 2 \* chunks an emulator child writes to its stderr
MaxSignals == 2     \* signals sent to the supervisor from outside
MaxStarts == 3      \* Start() calls made on the Managed Process under test

\* ----------------------------------------------------------------- strings

Alphabet == {"a", "b"}

SeqsUpTo(S, n) == UNION {[1..k -> S] : k \in 0..n}

\* strings.Contains(s, sub)
Contains(s, sub) ==
    \E k \in 0..(Len(s) - Len(sub)) : SubSeq(s, k + 1, k + Len(sub)) = sub

\* ----------------------------------------------------------------- channel
\* A chan struct{} that is only ever closed: "nil" before make, then the
\* number of close() calls made on it.  A second close panics.

MakeChan == [made |-> TRUE, closes |-> 0, panicked |-> FALSE]
NilChan == [made |-> FALSE, closes |-> 0, panicked |-> FALSE]

\* close(c): a close of an already closed channel panics
Close(c) == [c EXCEPT !.closes = c.closes + 1, !.panicked = c.closes >= 1]

IsClosed(c) == c.made /\ c.closes >= 1

\* ---------------------------------------------------------------- watchFor

NewWatchFor(sentinel) == [sentinel |-> sentinel, buf |-> <<>>, done |-> FALSE]

\* A faulty Write that scans the chunk just written instead of the
\* accumulated buffer; C1 has to tell it from Write.
WriteScansChunkOnly(r, data, baseErr) ==
    IF r.done \/ baseErr
    THEN [r |-> r, close |-> FALSE, err |-> baseErr, out |-> data]
    ELSE LET hit == Contains(data, r.sentinel)
         IN  [r |-> [r EXCEPT !.buf = r.buf \o data, !.done = hit],
              close |-> hit, err |-> FALSE, out |-> data]

\* A faulty Write that keeps and scans a chunk whose forward failed; C13 has
\* to tell it from Write.
WriteKeepsFailedChunk(r, data, baseErr) ==
    IF r.done
    THEN [r |-> r, close |-> FALSE, err |-> baseErr, out |-> data]
    ELSE LET buf == r.buf \o data
             hit == Contains(buf, r.sentinel)
         IN  [r |-> [r EXCEPT !.buf = buf, !.done = hit],
              close |-> hit, err |-> baseErr, out |-> data]

\* A faulty Write without the done gate; C14 has to tell it from Write.
WriteWithoutDoneGate(r, data, baseErr) ==
    IF baseErr
    THEN [r |-> r, close |-> FALSE, err |-> baseErr, out |-> data]
    ELSE LET buf == r.buf \o data
             hit == Contains(buf, r.sentinel)
         IN  [r |-> [r EXCEPT !.buf = buf, !.done = r.done \/ hit],
              close |-> hit, err |-> FALSE, out |-> data]

\* A faulty Write that swallows the error of the forward; C16 has to tell it
\* from Write.
WriteDropsError(r, data, baseErr) ==
    IF r.done \/ baseErr
    THEN [r |-> r, close |-> FALSE, err |-> FALSE, out |-> data]
    ELSE LET buf == r.buf \o data
             hit == Contains(buf, r.sentinel)
         IN  [r |-> [r EXCEPT !.buf = buf, !.done = hit],
              close |-> hit, err |-> FALSE, out |-> data]

\* watchFor.Write, given the error baseErr that the forward to r.base returns:
\*   out   the bytes handed to r.base.Write, the first thing Write does
\*   r     the watcher afterwards
\*   close whether close(r.c) was executed
\*   err   the error returned
Write(r, data, baseErr) ==
    IF r.done \/ baseErr
    THEN [r |-> r, close |-> FALSE, err |-> baseErr, out |-> data]
    ELSE LET buf == r.buf \o data
             hit == Contains(buf, r.sentinel)
         IN  [r |-> [r EXCEPT !.buf = buf, !.done = hit],
              close |-> hit, err |-> FALSE, out |-> data]

\* ------------------------------------------------- watcher under test

Sentinels == SeqsUpTo(Alphabet, MaxSentinel) \ {<<>>}
Chunks == SeqsUpTo(Alphabet, MaxChunk)

WatchIdle == [on |-> FALSE]

WatchInit ==
    \E s \in Sentinels :
        wt = [on |-> TRUE, r |-> NewWatchFor(s), c |-> MakeChan,
              base |-> <<>>, input |-> <<>>, calls |-> 0,
              fwdFailed |-> FALSE, lastClose |-> FALSE, lastErr |-> FALSE,
              prev |-> NewWatchFor(s), prevCloses |-> 0,
              accepted |-> <<>>, prevBase |-> <<>>, lastData |-> <<>>,
              lastOut |-> <<>>, lastBaseErr |-> FALSE]

\* One call r.Write(data).  The base writer takes the whole chunk, or fails
\* having taken none or all of it.  Kept beside the watcher: what went to
\* the base writer (base), every chunk handed in (input), the chunks whose
\* forward succeeded (accepted), and the call just made (last*, prev*).
WriteCall ==
    /\ wt.on
    /\ wt.calls < MaxCalls
    /\ ~wt.c.panicked
    /\ \E data \in Chunks, baseErr \in BOOLEAN :
       \E n \in (IF baseErr THEN {0, Len(data)} ELSE {Len(data)}) :
         LET res == Write(wt.r, data, baseErr)
         IN  wt' = [wt EXCEPT
                      !.r = res.r,
                      !.c = IF res.close THEN Close(wt.c) ELSE wt.c,
                      !.base = wt.base \o SubSeq(res.out, 1, n),
                      !.input = wt.input \o data,
                      !.calls = wt.calls + 1,
                      !.fwdFailed = wt.fwdFailed \/ baseErr,
                      !.lastClose = res.close,
                      !.lastErr = res.err,
                      !.prev = wt.r,
                      !.prevCloses = wt.c.closes,
                      !.accepted = IF baseErr THEN wt.accepted
                                   ELSE wt.accepted \o data,
                      !.prevBase = wt.base,
                      !.lastData = data,
                      !.lastOut = res.out,
                      !.lastBaseErr = baseErr]

\* --------------------------------------------------------------- Env()

NL == "\n"
EXPORT == <<"e", "x", "p", "o", "r", "t", " ">>

RECURSIVE Flatten(_)
Flatten(ss) == IF ss = <<>> THEN <<>> ELSE Head(ss) \o Flatten(Tail(ss))

\* strings.Split(s, "\n"): the pieces between the separators, one more than
\* there are separators, empty pieces kept
RECURSIVE Split(_)
Split(s) ==
    IF \A k \in 1..Len(s) : s[k] # NL
    THEN <<s>>
    ELSE LET k == CHOOSE j \in 1..Len(s) :
                      s[j] = NL /\ \A h \in 1..(j - 1) : s[h] # NL
         IN  <<SubSeq(s, 1, k - 1)>> \o Split(SubSeq(s, k + 1, Len(s)))

HasPrefix(s, p) == Len(s) >= Len(p) /\ SubSeq(s, 1, Len(p)) = p

\* strings.Replace(s, old, "", -1): every non-overlapping occurrence of old,
\* found left to right, is removed
RECURSIVE ReplaceAll(_, _)
ReplaceAll(s, old) ==
    IF s = <<>> THEN <<>>
    ELSE IF HasPrefix(s, old)
         THEN ReplaceAll(SubSeq(s, Len(old) + 1, Len(s)), old)
         ELSE <<Head(s)>> \o ReplaceAll(Tail(s), old)

\* Env() on the helper's combined output (the lines after CombinedOutput
\* succeeded)
Env(out) ==
    LET lines == Split(out)
    IN  [i \in 1..Len(lines) |-> ReplaceAll(lines[i], EXPORT)]

\* ------------------------------------------------------- Env() under test

Pieces == {EXPORT, <<"A", "=", "1">>, <<"B", "=", "2">>, <<NL>>}

HelperOutputs == {Flatten(ps) : ps \in SeqsUpTo(Pieces, MaxPieces)}

EnvIdle == [on |-> FALSE]

EnvInit ==
    \E out \in HelperOutputs :
        ev = [on |-> TRUE, out |-> out, state |-> "ready", result |-> <<>>]

\* One call of Env(): the helper exits non-zero (log.Fatalf) or its output is
\* split and stripped.
EnvCall ==
    /\ ev.on
    /\ ev.state = "ready"
    /\ \E helperErr \in BOOLEAN :
         ev' = IF helperErr
               THEN [ev EXCEPT !.state = "fatal"]
               ELSE [ev EXCEPT !.state = "returned", !.result = Env(ev.out)]

supvars == <<variant, pc, exit, em, proc, gor, fwd, notified, sigch, cmdErr,
             env, hist>>
vars == <<wt, ev, mp, supvars>>

\* ------------------------------------------------------------- supervisor

\* main starts two Managed Processes; cmd.go has the one emulator
Emulators == {1, 2}
Ems(v) == IF v = "cmd" THEN {1} ELSE Emulators
Variants == {"cmd", "jobs", "emulator"}

Child(i) == IF i = 1 THEN "e1" ELSE "e2"
Procs == {"sup", "e1", "e2", "target"}

\* the ReadySentinel of each Managed Process, two bytes long here
SentinelOf(i) == IF i = 1 THEN <<"a", "b">> ELSE <<"b", "a">>
ChildChunks == {<<"a">>, <<"b">>}

\* what the env-init helper of each Managed Process prints
HelperOut(i) ==
    IF i = 1 THEN EXPORT \o <<"X", "=", "1", NL>>
    ELSE EXPORT \o <<"Y", "=", "2", NL>>
\* os.Environ()
Environ == << <<"P", "=", "0">> >>

ExtSignals == {"SIGINT", "SIGHUP"}

Running == [how |-> "running", code |-> -1]
Fatal == [how |-> "fatal", code |-> 1]          \* log.Fatal, os.Exit(1)
Panicked == [how |-> "panic", code |-> 2]       \* close of closed channel
Returned == [how |-> "return", code |-> 0]      \* main returns
Killed == [how |-> "killed", code |-> 128]      \* default action of a signal

Alive == exit.how = "running"

At(a, i) == [at |-> a, i |-> i]

NoProc == [st |-> "none", pgid |-> "none", sig |-> FALSE]

NewEmulator(i) ==
    [ready |-> NilChan, cmd |-> "nil", w |-> NewWatchFor(SentinelOf(i)),
     writes |-> 0, copying |-> FALSE, stop |-> "none"]

SupIdle ==
    /\ variant = "none"
    /\ pc = At("idle", 0)
    /\ exit = Running
    /\ em = [i \in Emulators |-> NewEmulator(i)]
    /\ proc = [p \in Procs |-> NoProc]
    /\ gor = "none" /\ fwd = "none" /\ notified = FALSE /\ sigch = <<>>
    /\ cmdErr = [kind |-> "unset", status |-> -1] /\ env = <<>>
    /\ hist = [ext |-> 0, extFwd |-> 0, fwdSent |-> 0]

\* The state when main is entered.  cmd.go makes datastoreRunning and starts
\* the goroutine before anything else (lines 13-14).
SupInit ==
    /\ variant \in Variants
    /\ pc = At(CASE variant = "cmd" -> "wait"
                 [] variant = "jobs" -> "start"
                 [] OTHER -> "setpgid", 1)
    /\ exit = Running
    /\ em = [i \in Emulators |->
               IF variant = "cmd" /\ i = 1
               THEN [NewEmulator(i) EXCEPT !.ready = MakeChan]
               ELSE NewEmulator(i)]
    /\ proc = [p \in Procs |->
                 IF p = "sup"
                 THEN [st |-> "running", pgid |-> "shell", sig |-> FALSE]
                 ELSE NoProc]
    /\ gor = IF variant = "cmd" THEN "start" ELSE "none"
    /\ fwd = "none" /\ notified = FALSE /\ sigch = <<>>
    /\ cmdErr = [kind |-> "unset", status |-> -1] /\ env = <<>>
    /\ hist = [ext |-> 0, extFwd |-> 0, fwdSent |-> 0]

\* --- the operating system

\* kill(-g, sig) as the other processes see it: every running member of
\* group g has the signal delivered
SignalGroup(pr, g) ==
    [p \in Procs |->
       IF p # "sup" /\ pr[p].pgid = g /\ pr[p].st = "running"
       THEN [pr[p] EXCEPT !.sig = TRUE] ELSE pr[p]]

\* the Go runtime hands a trapped signal to the Notify channel without
\* blocking: it is dropped when the buffer (of one) is full
Offer(ch, s) == IF Len(ch) < 1 THEN Append(ch, s) ELSE ch

\* A signal reaches the supervisor process: trapped once Notify is installed,
\* otherwise the default action ends the process.
SupReceives(s) ==
    IF notified
    THEN /\ sigch' = Offer(sigch, s)
         /\ exit' = exit
    ELSE /\ sigch' = sigch
         /\ exit' = Killed

\* --- the Managed Process

\* A faulty ChildGroup that gives every child a group of its own in all
\* generations; C15 has to tell it from ChildGroup.
ChildGroupOfItsOwn(i) ==
    CASE variant = "cmd" -> proc["sup"].pgid
      [] OTHER -> Child(i)

\* The process group a child is spawned into: Setpgid with Pgid 0 (a group of
\* its own) in part_000/part_001, sysprocattr() (the supervisor's pid) in
\* part_002, the supervisor's own group in cmd.go.
ChildGroup(i) ==
    CASE variant = "jobs" -> Child(i)
      [] variant = "emulator" -> "sup"
      [] OTHER -> proc["sup"].pgid

\* A faulty Start that lacks the `ready != nil` test; C11 has to tell it
\* from Start.
StartWithoutGuard(e, i, spawnOk) ==
    [e |-> [e EXCEPT !.ready = MakeChan,
                     !.cmd = IF spawnOk THEN "started" ELSE "failed",
                     !.w = NewWatchFor(SentinelOf(i)),
                     !.copying = spawnOk],
     err |-> IF spawnOk THEN "nil" ELSE "spawn",
     spawned |-> spawnOk]

\* Start(): r.e the Managed Process afterwards, r.err its result, r.spawned
\* whether a child now runs
Start(e, i, spawnOk) ==
    IF e.ready.made
    THEN [e |-> e, err |-> "already started", spawned |-> FALSE]
    ELSE [e |-> [e EXCEPT !.ready = MakeChan,
                          !.cmd = IF spawnOk THEN "started" ELSE "failed",
                          !.w = NewWatchFor(SentinelOf(i)),
                          !.copying = spawnOk],
          err |-> IF spawnOk THEN "nil" ELSE "spawn",
          spawned |-> spawnOk]

\* --- a Managed Process under test
\* Start() is called on one Managed Process up to MaxStarts times, its child
\* writing to the watcher in between.

StartIdle == [on |-> FALSE]

StartInit ==
    \E i \in Emulators :
        mp = [on |-> TRUE, i |-> i, e |-> NewEmulator(i), children |-> 0,
              calls |-> 0, lastErr |-> "none",
              before |-> NewEmulator(i), after |-> NewEmulator(i),
              childrenBefore |-> 0]

\* one call e.Start(); exec's Start spawns the child or fails
StartCall ==
    /\ mp.on
    /\ mp.calls < MaxStarts
    /\ \E spawnOk \in BOOLEAN :
         LET r == Start(mp.e, mp.i, spawnOk)
         IN  mp' = [mp EXCEPT
                      !.e = r.e,
                      !.children = mp.children + (IF r.spawned THEN 1 ELSE 0),
                      !.calls = mp.calls + 1,
                      !.lastErr = r.err,
                      !.before = mp.e,
                      !.after = r.e,
                      !.childrenBefore = mp.children]

\* the child writes a chunk to its stderr: exec's copier calls Write, and a
\* failed Write ends the copying
StartedChildWrites ==
    /\ mp.on
    /\ mp.e.copying
    /\ mp.e.writes < MaxChildWrites
    /\ ~mp.e.ready.panicked
    /\ \E data \in ChildChunks, baseErr \in BOOLEAN :
         LET res == Write(mp.e.w, data, baseErr)
         IN  mp' = [mp EXCEPT
                      !.e.w = res.r,
                      !.e.ready = IF res.close THEN Close(mp.e.ready)
                                  ELSE mp.e.ready,
                      !.e.writes = mp.e.writes + 1,
                      !.e.copying = ~res.err]

\* the position after position (a, i): the same step on the next Managed
\* Process, or `after` when this was the last one
NextIn(a, i, after) == IF i + 1 \in Ems(variant) THEN At(a, i + 1) ELSE after

AfterRun == IF variant = "cmd" THEN At("report", 1) ELSE At("stop", 1)

TargetStatuses == {0, 3}

\* --- main

\* syscall.Setpgid(os.Getpid(), os.Getpid())
SetPgid ==
    /\ Alive /\ variant = "emulator" /\ pc = At("setpgid", 1)
    /\ \E ok \in BOOLEAN :
         IF ok
         THEN /\ proc' = [proc EXCEPT !["sup"].pgid = "sup"]
              /\ pc' = At("forward", 1)
              /\ exit' = exit
         ELSE /\ exit' = Fatal
              /\ UNCHANGED <<proc, pc>>
    /\ UNCHANGED <<variant, em, gor, fwd, notified, sigch, cmdErr, env, hist,
                   wt, ev, mp>>

\* A faulty forwardSignals that starts the goroutine and leaves out
\* signal.Notify; C20 has to tell it from ForwardSignals.
ForwardSignalsWithoutNotify ==
    /\ Alive /\ variant = "emulator" /\ pc = At("forward", 1)
    /\ fwd' = "waiting"
    /\ notified' = notified
    /\ pc' = At("start", 1)
    /\ UNCHANGED <<variant, exit, em, proc, gor, sigch, cmdErr, env, hist,
                   wt, ev, mp>>

\* forwardSignals(): the goroutine that takes one signal from sigch, and
\* signal.Notify
ForwardSignals ==
    /\ Alive /\ variant = "emulator" /\ pc = At("forward", 1)
    /\ fwd' = "waiting"
    /\ notified' = TRUE
    /\ pc' = At("start", 1)
    /\ UNCHANGED <<variant, exit, em, proc, gor, sigch, cmdErr, env, hist,
                   wt, ev, mp>>

\* A faulty main that goes on after a failed Start; C17 has to tell it from
\* MainStart.
MainStartIgnoresError(i) ==
    /\ Alive /\ variant \in {"jobs", "emulator"} /\ pc = At("start", i)
    /\ \E spawnOk \in BOOLEAN :
         LET r == Start(em[i], i, spawnOk)
         IN  /\ em' = [em EXCEPT ![i] = r.e]
             /\ proc' = IF r.err = "nil"
                        THEN [proc EXCEPT ![Child(i)] =
                                [st |-> "running", pgid |-> ChildGroup(i),
                                 sig |-> FALSE]]
                        ELSE proc
             /\ pc' = NextIn("start", i, At("wait", 1))
             /\ exit' = exit
    /\ UNCHANGED <<variant, gor, fwd, notified, sigch, cmdErr, env, hist,
                   wt, ev, mp>>

\* x.Start() in main, fatal on error
MainStart(i) ==
    /\ Alive /\ variant \in {"jobs", "emulator"} /\ pc = At("start", i)
    /\ \E spawnOk \in BOOLEAN :
         LET r == Start(em[i], i, spawnOk)
         IN  /\ em' = [em EXCEPT ![i] = r.e]
             /\ IF r.err = "nil"
                THEN /\ proc' = [proc EXCEPT ![Child(i)] =
                                   [st |-> "running", pgid |-> ChildGroup(i),
                                    sig |-> FALSE]]
                     /\ pc' = NextIn("start", i, At("wait", 1))
                     /\ exit' = exit
                ELSE /\ exit' = Fatal
                     /\ UNCHANGED <<proc, pc>>
    /\ UNCHANGED <<variant, gor, fwd, notified, sigch, cmdErr, env, hist,
                   wt, ev, mp>>

\* x.WaitReady(): <-ready
WaitReady(i) ==
    /\ Alive /\ pc = At("wait", i)
    /\ IsClosed(em[i].ready)
    /\ pc' = NextIn("wait", i, At("env", 1))
    /\ UNCHANGED <<variant, exit, em, proc, gor, fwd, notified, sigch, cmdErr,
                   env, hist, wt, ev, mp>>

\* env = append(env, x.Env()...), the helper's failure fatal; cmd.go puts
\* the helper's lines first and os.Environ() after them
MainEnv(i) ==
    /\ Alive /\ pc = At("env", i)
    /\ \E helperErr \in BOOLEAN :
         IF helperErr
         THEN /\ exit' = Fatal
              /\ UNCHANGED <<pc, env>>
         ELSE /\ env' = IF variant = "cmd"
                        THEN Env(HelperOut(i)) \o Environ
                        ELSE (IF i = 1 THEN Environ ELSE env)
                                 \o Env(HelperOut(i))
              /\ pc' = NextIn("env", i, At("run", 1))
              /\ exit' = exit
    /\ UNCHANGED <<variant, em, proc, gor, fwd, notified, sigch, cmdErr, hist,
                   wt, ev, mp>>

\* cmd.Run() starts the target; a spawn failure is kept in cmdErr
MainRun ==
    /\ Alive /\ pc = At("run", 1)
    /\ \E spawnOk \in BOOLEAN :
         IF spawnOk
         THEN /\ proc' = [proc EXCEPT !["target"] =
                            [st |-> "running",
                             pgid |-> IF variant = "emulator" THEN "sup"
                                      ELSE proc["sup"].pgid,
                             sig |-> FALSE]]
              /\ pc' = At("running", 1)
              /\ cmdErr' = cmdErr
         ELSE /\ cmdErr' = [kind |-> "spawn", status |-> -1]
              /\ pc' = AfterRun
              /\ proc' = proc
    /\ UNCHANGED <<variant, exit, em, gor, fwd, notified, sigch, env, hist,
                   wt, ev, mp>>

\* the target exits (with a status, or by a signal delivered to it) and
\* cmd.Run() returns
TargetExit ==
    /\ Alive /\ pc = At("running", 1) /\ proc["target"].st = "running"
    /\ \E r \in [kind : {"exit"}, status : TargetStatuses]
                \cup (IF proc["target"].sig
                      THEN {[kind |-> "signal", status |-> -1]} ELSE {}) :
         cmdErr' = IF r.kind = "exit" /\ r.status = 0
                   THEN [kind |-> "nil", status |-> 0] ELSE r
    /\ proc' = [proc EXCEPT !["target"].st = "reaped"]
    /\ pc' = AfterRun
    /\ UNCHANGED <<variant, exit, em, gor, fwd, notified, sigch, env, hist,
                   wt, ev, mp>>

\* Emulator.Stop() up to the signal: syscall.Kill(-os.Getpid(), SIGTERM)
\* reaches the supervisor's own group, which always has a live member (the
\* supervisor, which receives the signal too), so it does not fail.
Stop(i) ==
    /\ Alive /\ variant = "emulator" /\ pc = At("stop", i)
    /\ proc' = SignalGroup(proc, "sup")
    /\ SupReceives([sig |-> "SIGTERM", from |-> "stop"])
    /\ em' = [em EXCEPT ![i].stop = "signalled"]
    /\ pc' = At("stopwait", i)
    /\ UNCHANGED <<variant, gor, fwd, notified, cmdErr, env, hist, wt, ev, mp>>

\* Datastore.Stop() / PubSub.Stop() up to the signal, and main's log.Fatalf
\* when it returns an error: syscall.Getpgid of the child, then syscall.Kill
\* of that group.  With the child running both calls succeed.  With the
\* child already exited and not yet reaped the outcome is the platform's:
\* Linux still finds the zombie and its group, the BSDs answer ESRCH.
StopJob(i) ==
    /\ Alive /\ variant = "jobs" /\ pc = At("stop", i)
    /\ \E ok \in (IF proc[Child(i)].st = "running" THEN {TRUE} ELSE BOOLEAN) :
         IF ok
         THEN /\ proc' = SignalGroup(proc, proc[Child(i)].pgid)
              /\ em' = [em EXCEPT ![i].stop = "signalled"]
              /\ pc' = At("stopwait", i)
              /\ exit' = exit
         ELSE /\ em' = [em EXCEPT ![i].stop = "err"]
              /\ exit' = Fatal
              /\ UNCHANGED <<proc, pc>>
    /\ UNCHANGED <<variant, gor, fwd, notified, sigch, cmdErr, env, hist,
                   wt, ev, mp>>

\* x.Stop() from cmd.Wait() on: blocks until the child has exited, reaps it
\* and returns nil
StopWait(i) ==
    /\ Alive /\ pc = At("stopwait", i)
    /\ proc[Child(i)].st = "zombie"
    /\ proc' = [proc EXCEPT ![Child(i)].st = "reaped"]
    /\ em' = [em EXCEPT ![i].stop = "nil"]
    /\ pc' = NextIn("stop", i, At("report", 1))
    /\ UNCHANGED <<variant, exit, gor, fwd, notified, sigch, cmdErr, env, hist,
                   wt, ev, mp>>

\* the end of main: log.Fatal(cmdErr), os.Exit(1) in cmd.go, or return
Report ==
    /\ Alive /\ pc = At("report", 1)
    /\ exit' = IF cmdErr.kind # "nil" THEN Fatal ELSE Returned
    /\ pc' = At("exited", 1)
    /\ UNCHANGED <<variant, em, proc, gor, fwd, notified, sigch, cmdErr, env,
                   hist, wt, ev, mp>>

\* A faulty forwarder that receives in a loop; C19 has to tell it from
\* Forward.
ForwardInLoop ==
    /\ Alive /\ fwd = "waiting" /\ sigch # <<>>
    /\ proc' = SignalGroup(proc, "sup")
    /\ sigch' = IF proc["sup"].pgid = "sup"
                THEN Offer(Tail(sigch), [sig |-> Head(sigch).sig, from |-> "fwd"])
                ELSE Tail(sigch)
    /\ fwd' = "waiting"
    /\ hist' = [hist EXCEPT
                  !.fwdSent = hist.fwdSent + 1,
                  !.extFwd = hist.extFwd
                               + (IF Head(sigch).from = "ext" THEN 1 ELSE 0)]
    /\ UNCHANGED <<variant, pc, exit, em, gor, notified, cmdErr, env, wt, ev, mp>>

\* --- forwardSignals' goroutine: one receive from sigch, one
\* pgroup.Signal(sig) to the group of the supervisor's pid, and the
\* goroutine ends
Forward ==
    /\ Alive /\ fwd = "waiting" /\ sigch # <<>>
    /\ proc' = SignalGroup(proc, "sup")
    /\ sigch' = IF proc["sup"].pgid = "sup"
                THEN Offer(Tail(sigch), [sig |-> Head(sigch).sig, from |-> "fwd"])
                ELSE Tail(sigch)
    /\ fwd' = "exited"
    /\ hist' = [hist EXCEPT
                  !.fwdSent = hist.fwdSent + 1,
                  !.extFwd = hist.extFwd
                               + (IF Head(sigch).from = "ext" THEN 1 ELSE 0)]
    /\ UNCHANGED <<variant, pc, exit, em, gor, notified, cmdErr, env, wt, ev, mp>>

\* --- the world outside

\* an interrupt or hang-up signal is sent to the supervisor process
ExternalSignal ==
    /\ Alive /\ hist.ext < MaxSignals
    /\ \E s \in ExtSignals : SupReceives([sig |-> s, from |-> "ext"])
    /\ hist' = [hist EXCEPT !.ext = hist.ext + 1]
    /\ UNCHANGED <<variant, pc, em, proc, gor, fwd, notified, cmdErr, env,
                   wt, ev, mp>>

\* an emulator child writes a chunk to its stderr and the copying goroutine
\* of os/exec hands it to the watchFor; a failed Write ends the copying
ChildWrite(i) ==
    /\ Alive /\ i \in Ems(variant)
    /\ proc[Child(i)].st = "running"
    /\ em[i].copying /\ em[i].writes < MaxChildWrites
    /\ \E data \in ChildChunks, baseErr \in BOOLEAN :
         LET res == Write(em[i].w, data, baseErr)
             c == IF res.close THEN Close(em[i].ready) ELSE em[i].ready
         IN  /\ em' = [em EXCEPT ![i].w = res.r,
                                 ![i].ready = c,
                                 ![i].writes = em[i].writes + 1,
                                 ![i].copying = ~res.err]
             /\ exit' = IF c.panicked THEN Panicked ELSE exit
    /\ UNCHANGED <<variant, pc, proc, gor, fwd, notified, sigch, cmdErr, env,
                   hist, wt, ev, mp>>

\* an emulator child exits: on its own, or ended by a signal
ChildExit(i) ==
    /\ Alive /\ i \in Ems(variant)
    /\ proc[Child(i)].st = "running"
    /\ proc' = [proc EXCEPT ![Child(i)].st = "zombie"]
    /\ UNCHANGED <<variant, pc, exit, em, gor, fwd, notified, sigch, cmdErr,
                   env, hist, wt, ev, mp>>


\* --- cmd.go's goroutine

\* cmd.Start() of the emulator with the watchFor on its stderr
GoStart ==
    /\ Alive /\ variant = "cmd" /\ gor = "start"
    /\ \E spawnOk \in BOOLEAN :
         IF spawnOk
         THEN /\ proc' = [proc EXCEPT !["e1"] =
                            [st |-> "running", pgid |-> ChildGroup(1),
                             sig |-> FALSE]]
              /\ em' = [em EXCEPT ![1].cmd = "started", ![1].copying = TRUE]
              /\ gor' = "wait"
              /\ exit' = exit
         ELSE /\ exit' = Fatal
              /\ em' = [em EXCEPT ![1].cmd = "failed"]
              /\ UNCHANGED <<proc, gor>>
    /\ UNCHANGED <<variant, pc, fwd, notified, sigch, cmdErr, env, hist,
                   wt, ev, mp>>

\* cmd.Wait() returns once the emulator has exited
GoWait ==
    /\ Alive /\ variant = "cmd" /\ gor = "wait"
    /\ proc["e1"].st = "zombie"
    /\ proc' = [proc EXCEPT !["e1"].st = "reaped"]
    /\ gor' = "close"
    /\ UNCHANGED <<variant, pc, exit, em, fwd, notified, sigch, cmdErr, env,
                   hist, wt, ev, mp>>

\* close(datastoreRunning)
GoClose ==
    /\ Alive /\ variant = "cmd" /\ gor = "close"
    /\ em' = [em EXCEPT ![1].ready = Close(em[1].ready)]
    /\ exit' = IF Close(em[1].ready).panicked THEN Panicked ELSE exit
    /\ gor' = "done"
    /\ UNCHANGED <<variant, pc, proc, fwd, notified, sigch, cmdErr, env, hist,
                   wt, ev, mp>>

Next ==
    \/ SetPgid
    \/ ForwardSignals
    \/ \E i \in Emulators : MainStart(i)
    \/ \E i \in Emulators : WaitReady(i)
    \/ \E i \in Emulators : MainEnv(i)
    \/ MainRun
    \/ TargetExit
    \/ \E i \in Emulators : Stop(i)
    \/ \E i \in Emulators : StopJob(i)
    \/ \E i \in Emulators : StopWait(i)
    \/ Report
    \/ Forward
    \/ ExternalSignal
    \/ \E i \in Emulators : ChildWrite(i)
    \/ \E i \in Emulators : ChildExit(i)
    \/ GoStart
    \/ GoWait
    \/ GoClose

Init == SupInit /\ wt = WatchIdle /\ ev = EnvIdle /\ mp = StartIdle

Spec == Init /\ [][Next]_vars

\* The goroutines of the supervisor are scheduled fairly: a step of main, of
\* the forwarder or of cmd.go's goroutine that stays possible is taken.  The
\* children and the world outside owe nothing.
MainStep ==
    \/ SetPgid
    \/ ForwardSignals
    \/ \E i \in Emulators : MainStart(i)
    \/ \E i \in Emulators : WaitReady(i)
    \/ \E i \in Emulators : MainEnv(i)
    \/ MainRun
    \/ \E i \in Emulators : Stop(i)
    \/ \E i \in Emulators : StopJob(i)
    \/ \E i \in Emulators : StopWait(i)
    \/ Report

GoStep == GoStart \/ GoWait \/ GoClose

FairSpec ==
    /\ Spec
    /\ WF_vars(MainStep)
    /\ WF_vars(Forward)
    /\ WF_vars(GoStep)

\* main has ended by its own code: a return, log.Fatal or os.Exit
Exited == exit.how \in {"return", "fatal"}

TargetStarted == proc["target"].st # "none"

\* C2: the readiness channel of a Managed Process is closed at most once,
\* whoever closes it: the watcher's Write or the goroutine of cmd.go after
\* the child has exited.
C2_ReadyClosedAtMostOnce ==
    \A i \in Emulators : em[i].ready.closes <= 1

\* C3: when the target ran and exited with status s, the supervisor's own
\* exit status at the end of main is s (3 for 3, 0 for 0).
C3_ExitStatusIsTargetStatus ==
    (pc = At("exited", 1) /\ Exited /\ cmdErr.kind \in {"nil", "exit"})
        => exit.code = cmdErr.status

\* C4: once the target has been run (whatever its status, a spawn failure
\* included), the supervisor does not exit before Stop has been invoked on
\* every Managed Process.
C4_StopEveryoneBeforeExit ==
    (Exited /\ cmdErr.kind # "unset")
        => \A i \in Ems(variant) : em[i].stop # "none"

\* C5: when Stop on one Managed Process returned an error, the failure is
\* reported (the supervisor exits) only after Stop has been attempted on
\* every other Managed Process.
C5_StopFailureStillStopsTheRest ==
    (Exited /\ \E i \in Ems(variant) : em[i].stop = "err")
        => \A j \in Ems(variant) : em[j].stop # "none"

\* C7: the target is never started before the watcher of every Managed
\* Process has detected its sentinel.
C7_TargetAfterEverySentinel ==
    TargetStarted => \A i \in Ems(variant) : em[i].w.done

\* a started child has terminated without its sentinel having been seen
DiedUnready(i) ==
    /\ em[i].cmd = "started"
    /\ proc[Child(i)].st \in {"zombie", "reaped"}
    /\ ~em[i].w.done

\* C8: a supervisor blocked in WaitReady on a Managed Process whose child
\* has terminated without printing the sentinel is not stuck there: the
\* receive can return, or a step of the program that leads to the close of
\* the channel is still possible.
C8_DeadChildWaitCanEnd ==
    \A i \in Emulators :
        (Alive /\ pc = At("wait", i) /\ DiedUnready(i))
            => ENABLED (WaitReady(i) \/ GoStep)

\* The same as a property of behaviours under fair scheduling: the
\* supervisor eventually leaves that WaitReady (it proceeds, or it ends).
C8_DeadChildWaitEventuallyEnds ==
    \A i \in Emulators :
        (Alive /\ pc = At("wait", i) /\ DiedUnready(i))
            ~> (pc # At("wait", i) \/ ~Alive)

\* the signals from outside that wait in sigch for a forwarder still there
PendingExt ==
    IF fwd = "waiting"
    THEN Len(SelectSeq(sigch, LAMBDA s : s.from = "ext"))
    ELSE 0

\* C9: every signal the supervisor has received from outside since the
\* handler was installed has been forwarded to the group, or waits in the
\* channel for the forwarder; none is left unforwarded.
C9_EverySignalForwarded ==
    (variant = "emulator" /\ Alive /\ notified)
        => hist.ext - hist.extFwd <= PendingExt

\* C10: Stop returns nil only with the child reaped; and on a child that had
\* already exited Stop does not return an error and its wait is not blocked.
C10_StopReapsAndToleratesExitedChild ==
    \A i \in Emulators :
        /\ em[i].stop = "nil" => proc[Child(i)].st = "reaped"
        /\ em[i].stop # "err"
        /\ (Alive /\ pc = At("stopwait", i) /\ proc[Child(i)].st = "zombie")
               => ENABLED StopWait(i)

\* what the Managed Processes' Env() calls contribute, in start order
DerivedEnv ==
    IF variant = "cmd" THEN Env(HelperOut(1))
    ELSE Env(HelperOut(1)) \o Env(HelperOut(2))

\* C12: the environment list given to the target is the supervisor's ambient
\* environment followed by the Env() contribution of each Managed Process in
\* start order: X=1 and Y=2 are in it with every ambient entry, the derived
\* entries after the ambient ones.
C12_TargetEnvAmbientThenDerived ==
    TargetStarted =>
        /\ env = Environ \o DerivedEnv
        /\ \E n \in 1..Len(env) : env[n] = <<"X", "=", "1">>
        /\ variant # "cmd" => \E n \in 1..Len(env) : env[n] = <<"Y", "=", "2">>

\* the processes the supervisor spawns
Spawned == Procs \ {"sup"}

\* a step in which Stop or the forwarder signals the supervisor's group
SignalsGroup ==
    \/ hist'.fwdSent # hist.fwdSent
    \/ \E i \in Emulators : em[i].stop = "none" /\ em'[i].stop = "signalled"

\* C15: in the Emulator supervisor every spawned child and the target are,
\* from their spawn on, in the process group of the supervisor, whose id is
\* the supervisor's pid, and a signal that Stop or the forwarder sends to
\* that group is delivered to every live one of them.
C15_OneProcessGroup ==
    /\ [](variant = "emulator" =>
            \A p \in Spawned :
                proc[p].st # "none" =>
                    (proc[p].pgid = "sup" /\ proc["sup"].pgid = "sup"))
    /\ [][(variant = "emulator" /\ SignalsGroup) =>
             \A p \in Spawned : proc[p].st = "running" => proc'[p].sig]_vars

\* both emulators and the target run, and the forwarder's signal has reached
\* all three
C15_Witness ==
    /\ variant = "emulator" /\ hist.fwdSent = 1
    /\ \A p \in Spawned : proc[p].st = "running" /\ proc[p].sig

\* C17: if the Start of a Managed Process fails, at whichever position in
\* the start order, the supervisor has ended with a non-zero exit code and
\* the target is never run.
C17_StartFailureAbortsBeforeTarget ==
    \A i \in Emulators :
        em[i].cmd = "failed" =>
            /\ exit.how = "fatal" /\ exit.code # 0
            /\ ~TargetStarted

\* the second Managed Process fails to spawn after the first was started
C17_Witness ==
    /\ variant \in {"jobs", "emulator"}
    /\ em[1].cmd = "started" /\ proc["e1"].st # "none"
    /\ em[2].cmd = "failed"

\* C18: after the supervisor has received a signal from outside and
\* forwarded it to the group it eventually terminates, whatever the phase.
\* Stated on states: once the signal is forwarded and every process the
\* supervisor spawned is gone, nothing but main can still move, so a
\* supervisor that is to terminate must have a step of main left.
C18_ForwardedSignalLeadsToExit ==
    (/\ variant = "emulator" /\ Alive
     /\ hist.extFwd >= 1
     /\ \A p \in Spawned : proc[p].st # "running")
        => ENABLED MainStep

\* The same as a property of behaviours under fair scheduling.
C18_ForwardedSignalEventuallyExits ==
    (variant = "emulator" /\ hist.extFwd >= 1) ~> ~Alive

\* C19: forwarding does not recurse.  Over a whole run the forwarder sends
\* at most one signal to the group, and once it has, neither its own signal
\* nor Stop's SIGTERM coming back to the supervisor is forwarded again.
C19_ForwarderSendsAtMostOnce ==
    /\ hist.fwdSent <= 1
    /\ hist.fwdSent = 1 => (fwd = "exited" /\ ~ENABLED Forward)

\* the forwarded signal has come back to the supervisor and waits in sigch
C19_Witness ==
    /\ Alive /\ hist.fwdSent = 1
    /\ sigch # <<>> /\ Head(sigch).from = "fwd"

\* C20: in the Emulator supervisor the SIGTERM that Stop sends to the
\* supervisor's own group never ends the supervisor before teardown is
\* complete.  The handler is installed before any Managed Process is
\* started; once a Stop has signalled, the supervisor ends only through the
\* exit-status step, after the Stop of both Managed Processes has returned;
\* until then it runs, and the child a Stop waits for has exited or has the
\* SIGTERM delivered.
C20_StopSignalSparesSupervisor ==
    variant = "emulator" =>
        /\ (\E p \in Spawned : proc[p].st # "none") => notified
        /\ (\E i \in Emulators : em[i].stop # "none") =>
              /\ exit.how # "killed"
              /\ ~Alive => (/\ pc = At("exited", 1)
                            /\ \A i \in Emulators : em[i].stop = "nil")
              /\ \A i \in Emulators :
                    pc = At("stopwait", i) =>
                        (proc[Child(i)].st = "zombie" \/ proc[Child(i)].sig)
              /\ pc = At("stop", 2) => ENABLED Stop(2)
              /\ pc = At("report", 1) => ENABLED Report

\* teardown complete: both Stops returned, their SIGTERM reached the
\* supervisor, and main went through the exit-status step
C20_Witness ==
    /\ variant = "emulator"
    /\ \A i \in Emulators : em[i].stop = "nil"
    /\ sigch # <<>> /\ Head(sigch).sig = "SIGTERM"
    /\ pc = At("exited", 1) /\ Exited

\* ------------------------------------------------------- Env() contract

InitEnv == EnvInit /\ wt = WatchIdle /\ mp = StartIdle /\ SupIdle

NextEnv == EnvCall /\ UNCHANGED <<wt, mp, supvars>>

SpecEnv == InitEnv /\ [][NextEnv]_vars

\* What the contract asks of Env(): one leading "export " removed from each
\* line, trailing empty lines dropped.
StripLeading(line) ==
    IF HasPrefix(line, EXPORT) THEN SubSeq(line, Len(EXPORT) + 1, Len(line))
    ELSE line

RECURSIVE DropTrailingEmpty(_)
DropTrailingEmpty(ls) ==
    IF ls # <<>> /\ ls[Len(ls)] = <<>>
    THEN DropTrailingEmpty(SubSeq(ls, 1, Len(ls) - 1))
    ELSE ls

ContractEnv(out) ==
    LET ls == Split(out)
    IN  DropTrailingEmpty([i \in 1..Len(ls) |-> StripLeading(ls[i])])

\* C6: Env() returns the lines of the helper output with exactly one leading
\* "export " removed from each and with trailing empty lines dropped; for
\* "export A=1\nexport B=2\n" that is <<"A=1", "B=2">>.
C6_EnvStripsLeadingExportDropsTrailing ==
    (ev.on /\ ev.state = "returned") =>
        /\ ev.result = ContractEnv(ev.out)
        /\ (ev.out = Flatten(<<EXPORT, <<"A", "=", "1">>, <<NL>>,
                               EXPORT, <<"B", "=", "2">>, <<NL>> >>)
              => ev.result = << <<"A", "=", "1">>, <<"B", "=", "2">> >>)

\* The spec's own example, as the code returns it: three elements, the last
\* one empty.
C6_CodeOnExample ==
    (ev.on /\ ev.state = "returned"
       /\ ev.out = Flatten(<<EXPORT, <<"A", "=", "1">>, <<NL>>,
                             EXPORT, <<"B", "=", "2">>, <<NL>> >>))
    => ev.result = << <<"A", "=", "1">>, <<"B", "=", "2">>, <<>> >>

InitWatch == WatchInit /\ ev = EnvIdle /\ mp = StartIdle /\ SupIdle

NextWatch == WriteCall /\ UNCHANGED <<ev, mp, supvars>>

SpecWatch == InitWatch /\ [][NextWatch]_vars

\* C1: with every forward succeeding, after every Write call the channel has
\* been closed exactly once if the input so far contains the sentinel and not
\* at all otherwise: the signal is fulfilled once over the whole sequence and
\* in no call before the first one whose cumulative input holds the sentinel.
C1_SplitInputFulfilsOnce ==
    (wt.on /\ ~wt.fwdFailed) =>
        /\ wt.c.closes = (IF Contains(wt.input, wt.r.sentinel) THEN 1 ELSE 0)
        /\ ~wt.c.panicked
        /\ wt.base = wt.input

\* C1 witness: a two-byte sentinel arrived one byte per call, cut inside the
\* sentinel, and the second call fulfilled the signal.
C1_Witness ==
    /\ wt.on /\ ~wt.fwdFailed
    /\ Len(wt.r.sentinel) = 2
    /\ wt.calls >= 2
    /\ Len(wt.input) = wt.calls
    /\ wt.lastClose
    /\ wt.c.closes = 1

\* C13 as stated: a watcher never fulfils its readiness signal if the
\* sentinel never appears in the cumulative input: while the concatenation
\* of the chunks of all Write calls does not hold the sentinel, the signal
\* is unfulfilled and done is false after every call.
C13_NoSentinelInInputNeverFulfils ==
    (wt.on /\ ~Contains(wt.input, wt.r.sentinel)) =>
        (wt.c.closes = 0 /\ ~wt.r.done)

\* C13, amended: while the concatenation of the chunks whose forward
\* succeeded does not hold the sentinel, the signal is unfulfilled and done
\* is false after every call.
C13_NoSentinelAcceptedNeverFulfils ==
    (wt.on /\ ~Contains(wt.accepted, wt.r.sentinel)) =>
        (wt.c.closes = 0 /\ ~wt.r.done)

\* every call made, a forward failed on the way, chunks were taken in and
\* the watcher is still waiting
C13_Witness ==
    /\ wt.on /\ wt.calls = MaxCalls /\ wt.fwdFailed
    /\ Len(wt.accepted) >= 1
    /\ ~Contains(wt.accepted, wt.r.sentinel)
    /\ wt.c.closes = 0 /\ ~wt.r.done

\* C14: after readiness has been signalled, a further Write hands its chunk
\* unmodified to the pass-through destination, does not fulfil the signal
\* again and leaves buffer and done as they were, also when the chunk holds
\* the sentinel again.
C14_WriteAfterReadyOnlyForwards ==
    (wt.on /\ wt.calls >= 1 /\ wt.prev.done) =>
        /\ wt.lastOut = wt.lastData
        /\ ~wt.lastBaseErr => wt.base = wt.prevBase \o wt.lastData
        /\ ~wt.lastClose
        /\ wt.c.closes = wt.prevCloses
        /\ wt.r = wt.prev

\* a forwarded chunk that holds the sentinel, written after readiness
C14_Witness ==
    /\ wt.on /\ wt.calls >= 2 /\ wt.prev.done
    /\ ~wt.lastBaseErr
    /\ Contains(wt.lastData, wt.r.sentinel)
    /\ wt.c.closes = 1

\* C16: when the forward to the pass-through destination returns an error,
\* Write returns that error and neither appends the chunk, nor scans, nor
\* fulfils the signal, also when the chunk would have completed the
\* sentinel: buffer, done and signal are as before the call.
C16_ForwardErrorShortCircuits ==
    (wt.on /\ wt.calls >= 1 /\ wt.lastBaseErr) =>
        /\ wt.lastErr
        /\ ~wt.lastClose
        /\ wt.c.closes = wt.prevCloses
        /\ wt.r = wt.prev

\* the forward failed on the chunk that would have completed the sentinel
C16_Witness ==
    /\ wt.on /\ wt.calls >= 1 /\ wt.lastBaseErr
    /\ ~wt.prev.done
    /\ Contains(wt.prev.buf \o wt.lastData, wt.r.sentinel)
    /\ wt.c.closes = 0

\* ------------------------------------------------- Start() under test

InitStart == StartInit /\ wt = WatchIdle /\ ev = EnvIdle /\ SupIdle

NextStart == (StartCall \/ StartedChildWrites) /\ UNCHANGED <<wt, ev, supvars>>

SpecStart == InitStart /\ [][NextStart]_vars

\* C11: a Start() on a Managed Process that was started before returns the
\* already-started error and changes nothing: the Managed Process (child
\* handle, readiness signal, watcher) is as it was before the call, and no
\* second child is spawned.
C11_SecondStartChangesNothing ==
    (mp.on /\ mp.calls >= 2) =>
        /\ mp.lastErr = "already started"
        /\ mp.after = mp.before
        /\ mp.children = mp.childrenBefore
        /\ mp.children <= 1

\* a second Start on a Managed Process whose child runs and has made it ready
C11_Witness ==
    /\ mp.on /\ mp.calls >= 2
    /\ mp.children = 1
    /\ IsClosed(mp.before.ready)
    /\ mp.lastErr = "already started"

====
